---- MODULE Spec2Model ----
(***************************************************************************)
(* Model of frontend/server.py: CustomHTTPRequestHandler, a subclass of    *)
(* http.server.SimpleHTTPRequestHandler served by socketserver.TCPServer.  *)
(*                                                                         *)
(* A string is a sequence of tokens (a token stands for a run of           *)
(* characters: "/", "?", a name, an extension such as ".js").  self.path   *)
(* is the raw request target, query string included; translate_path       *)
(* turns it into a filesystem path.  The handler is single threaded        *)
(* (TCPServer), one handler instance per request.                          *)
(***************************************************************************)
EXTENDS Integers, Sequences, FiniteSets, TLC

VARIABLES
    pc,                 \* "idle" | "parsed" | "streaming" | "done"
    requestline,        \* self.requestline: the command and the target as sent
    command,            \* self.command
    path,               \* self.path, the request target, query string included
    fault,              \* what the environment does to this request:
                        \* "none" | "fstat" (os.fstat fails) | "socket" (client gone)
    sock,               \* the client socket: "ok" | "broken"
    headers_buffer,     \* self._headers_buffer
    wfile,              \* what self.wfile has written to the socket
    stderr,             \* log entries written since the request was accepted
    exc,                \* exception propagating out of the handler, or None
    f,                  \* the handle send_head returned: <<>> is None
    open_files,         \* OS file handles currently open
    opened,             \* handles opened while handling the request
    fs_calls,           \* filesystem operations made for the request
    end_headers_calls,  \* calls of CustomHTTPRequestHandler.end_headers
    prev                \* outcome of the previous request on this server

vars == <<pc, requestline, command, path, fault, sock, headers_buffer, wfile, stderr, exc, f,
          open_files, opened, fs_calls, end_headers_calls, prev>>

None == "None"

(***************************************************************************)
(* Bounds and inputs                                                       *)
(***************************************************************************)
MaxLen == 4

Tokens == {"/", "?", "d0", "d1", "d2", "f", "s", ".js", ".css", ".html", ".txt"}

\* request targets: origin-form, so they start with "/"
Paths == {p \in UNION {[1..n -> Tokens] : n \in 1..MaxLen} : p[1] = "/"}

Commands == {"GET", "OPTIONS"}

(***************************************************************************)
(* str methods and os.path helpers                                         *)
(***************************************************************************)
endswith(str, t) == Len(str) > 0 /\ str[Len(str)] = t

\* str.split(t, 1)[0]
SplitFirst(str, t) ==
    LET I == {i \in 1..Len(str) : str[i] = t}
    IN  IF I = {} THEN str
        ELSE SubSeq(str, 1, (CHOOSE i \in I : \A j \in I : i <= j) - 1)

\* filter(None, posixpath.normpath(str).split('/'))
RECURSIVE Words(_)
Words(str) ==
    IF str = <<>> THEN <<>>
    ELSE IF Head(str) = "/" THEN Words(Tail(str))
    ELSE LET n == CHOOSE k \in 1..Len(str) :
                      /\ \A i \in 1..k : str[i] # "/"
                      /\ (k = Len(str) \/ str[k + 1] = "/")
         IN  <<SubSeq(str, 1, n)>> \o Words(SubSeq(str, n + 1, Len(str)))

\* last component of a /-separated string (posixpath.basename)
RECURSIVE basename(_)
basename(str) ==
    IF str = <<>> THEN <<>>
    ELSE IF str[Len(str)] = "/" THEN <<>>
    ELSE Append(basename(SubSeq(str, 1, Len(str) - 1)), str[Len(str)])

translate_path(p) ==
    LET q == SplitFirst(p, "?")
    IN  [words |-> Words(q), slash |-> endswith(q, "/")]

join(fp, name) == [words |-> Append(fp.words, <<name>>), slash |-> FALSE]

(***************************************************************************)
(* The serving root                                                        *)
(***************************************************************************)
Directories == {<<>>, << <<"d0">> >>, << <<"d1">> >>, << <<"d2">> >>}

RegularFiles == {
    << <<"index.html">> >>,
    << <<"f">> >>, << <<"f", ".js">> >>, << <<"f", ".css">> >>,
    << <<"f", ".html">> >>, << <<"f", ".txt">> >>, << <<"s">> >>,
    << <<"d1">>, <<"index.htm">> >>,
    << <<"d2">>, <<"index.html">> >>, << <<"d2">>, <<"index.htm">> >> }

\* files the server process has no permission to read
Unreadable == { << <<"s">> >> }

st_size(w) ==
    CASE w = << <<"index.html">> >> -> 40
      [] w = << <<"f">> >> -> 1
      [] w = << <<"f", ".js">> >> -> 4
      [] w = << <<"f", ".css">> >> -> 3
      [] w = << <<"f", ".html">> >> -> 30
      [] w = << <<"f", ".txt">> >> -> 5
      [] w = << <<"d1">>, <<"index.htm">> >> -> 15
      [] w = << <<"d2">>, <<"index.html">> >> -> 7
      [] w = << <<"d2">>, <<"index.htm">> >> -> 6
      [] OTHER -> 0

st_mtime(w) == 1000 + st_size(w)

isdir(fp) == fp.words \in Directories

exists(fp) == isdir(fp) \/ (fp.words \in RegularFiles /\ ~fp.slash)

\* open(path, 'rb') succeeds; otherwise it raises an OSError
CanOpen(fp) == fp.words \in RegularFiles \ Unreadable /\ ~fp.slash

(***************************************************************************)
(* The handler's state while one request is handled is threaded through    *)
(* the methods below as a record s; an action commits it to the variables. *)
(***************************************************************************)
Self ==
    [requestline |-> requestline, command |-> command, path |-> path, sock |-> sock,
     headers_buffer |-> headers_buffer, wfile |-> wfile, stderr |-> stderr,
     exc |-> exc, f |-> f, open_files |-> open_files, opened |-> opened,
     fs_calls |-> fs_calls, end_headers_calls |-> end_headers_calls]

\* str(code)
str(code) ==
    CASE code = 200 -> "200"
      [] code = 301 -> "301"
      [] code = 404 -> "404"
      [] OTHER -> "???"

\* BaseHTTPRequestHandler.responses[code][0]
shortmsg(code) ==
    CASE code = 200 -> "OK"
      [] code = 301 -> "Moved Permanently"
      [] code = 404 -> "Not Found"
      [] OTHER -> "???"

\* mutant of log_message: the test on the status is dropped
log_message_all(s, args) == [s EXCEPT !.stderr = Append(@, args)]

\* log_message(format, *args): args[1] of the code is args[2] here
log_message(s, args) ==
    IF args[2] # "200"
    THEN [s EXCEPT !.stderr = Append(@, args)]
    ELSE s

\* BaseHTTPRequestHandler.log_request: log_message('"%s" %s %s', requestline, str(code), '-')
log_request(s, code) ==
    log_message(s, <<s.requestline, str(code), "-">>)

\* BaseHTTPRequestHandler.log_error("code %d, message %s", code, message)
log_error(s, code, message) ==
    log_message(s, << <<"code", code>>, message >>)

send_header(s, keyword, value) ==
    [s EXCEPT !.headers_buffer = Append(@, <<keyword, value>>)]

\* BaseHTTPRequestHandler.send_response: log, status line, Server and Date
send_response(s, code, message) ==
    LET s1 == log_request(s, code)
        s2 == [s1 EXCEPT !.headers_buffer = Append(@, <<"HTTP", code, message>>)]
    IN  send_header(send_header(s2, "Server", "version_string"),
                    "Date", "date_time_string")

\* BaseHTTPRequestHandler.end_headers: blank line, then flush_headers, whose
\* wfile.write raises BrokenPipeError (an OSError) on a broken socket and then
\* leaves the buffer as it is
super_end_headers(s) ==
    LET buf == Append(s.headers_buffer, <<"CRLF">>)
    IN  IF s.sock = "broken"
        THEN [s EXCEPT !.headers_buffer = buf, !.exc = "OSError"]
        ELSE [s EXCEPT !.headers_buffer = <<>>, !.wfile = @ \o buf]

\* mutant of end_headers: one security header is forgotten
end_headers_no_frame_options(s) ==
    LET s1 == send_header(s, "Access-Control-Allow-Origin", "*")
        s2 == send_header(s1, "Access-Control-Allow-Methods",
                          "GET, POST, PUT, DELETE, OPTIONS")
        s3 == send_header(s2, "Access-Control-Allow-Headers",
                          "Content-Type, Authorization")
        s4 == send_header(s3, "X-Content-Type-Options", "nosniff")
        s6 == send_header(s4, "X-XSS-Protection", "1; mode=block")
    IN  super_end_headers([s6 EXCEPT !.end_headers_calls = @ + 1])

\* CustomHTTPRequestHandler.end_headers
end_headers(s) ==
    LET s1 == send_header(s, "Access-Control-Allow-Origin", "*")
        s2 == send_header(s1, "Access-Control-Allow-Methods",
                          "GET, POST, PUT, DELETE, OPTIONS")
        s3 == send_header(s2, "Access-Control-Allow-Headers",
                          "Content-Type, Authorization")
        s4 == send_header(s3, "X-Content-Type-Options", "nosniff")
        s5 == send_header(s4, "X-Frame-Options", "DENY")
        s6 == send_header(s5, "X-XSS-Protection", "1; mode=block")
    IN  super_end_headers([s6 EXCEPT !.end_headers_calls = @ + 1])

\* BaseHTTPRequestHandler.send_error; the body is the error page, which
\* quotes the code and the message
send_error(s, code, message) ==
    LET s1 == log_error(s, code, message)
        s2 == send_response(s1, code, message)
        s3 == send_header(s2, "Connection", "close")
        body == [kind |-> "error page", code |-> code, message |-> message]
        s4 == send_header(s3, "Content-Type", "text/html;charset=utf-8")
        s5 == send_header(s4, "Content-Length", <<"len", body>>)
        s6 == end_headers(s5)
    IN  IF s6.exc # None THEN s6
        ELSE IF s6.command # "HEAD"
             THEN [s6 EXCEPT !.wfile = Append(@, <<"BODY", body>>)]
             ELSE s6

\* mutant of do_OPTIONS: Access-Control-Max-Age is forgotten
do_OPTIONS_no_max_age(s) ==
    LET s1 == send_response(s, 200, shortmsg(200))
        s2 == send_header(s1, "Access-Control-Allow-Origin", "*")
        s3 == send_header(s2, "Access-Control-Allow-Methods",
                          "GET, POST, PUT, DELETE, OPTIONS")
        s4 == send_header(s3, "Access-Control-Allow-Headers",
                          "Content-Type, Authorization")
    IN  end_headers(s4)

\* mutant of do_OPTIONS: having sent the CORS headers itself, it closes the
\* header block with the base class's end_headers
do_OPTIONS_super_end_headers(s) ==
    LET s1 == send_response(s, 200, shortmsg(200))
        s2 == send_header(s1, "Access-Control-Allow-Origin", "*")
        s3 == send_header(s2, "Access-Control-Allow-Methods",
                          "GET, POST, PUT, DELETE, OPTIONS")
        s4 == send_header(s3, "Access-Control-Allow-Headers",
                          "Content-Type, Authorization")
        s5 == send_header(s4, "Access-Control-Max-Age", "3600")
    IN  super_end_headers(s5)

\* CustomHTTPRequestHandler.do_OPTIONS
do_OPTIONS(s) ==
    LET s1 == send_response(s, 200, shortmsg(200))
        s2 == send_header(s1, "Access-Control-Allow-Origin", "*")
        s3 == send_header(s2, "Access-Control-Allow-Methods",
                          "GET, POST, PUT, DELETE, OPTIONS")
        s4 == send_header(s3, "Access-Control-Allow-Headers",
                          "Content-Type, Authorization")
        s5 == send_header(s4, "Access-Control-Max-Age", "3600")
    IN  end_headers(s5)

\* SimpleHTTPRequestHandler.guess_type: extensions_map, then mimetypes.
\* posixpath.splitext finds an extension only after a non-empty stem.
super_guess_type(p) ==
    IF endswith(p, ".txt") /\ Len(basename(p)) >= 2
    THEN "text/plain"
    ELSE "application/octet-stream"

\* mutant of guess_type: the .js override is lost and the stock table answers
guess_type_stock_js(p) ==
    IF endswith(p, ".js") THEN <<"text/javascript", None>>
    ELSE IF endswith(p, ".css") THEN <<"text/css", None>>
    ELSE IF endswith(p, ".html") \/ p = <<"/">> \/ endswith(p, "/")
         THEN <<"text/html", None>>
    ELSE <<super_guess_type(p), None>>

\* CustomHTTPRequestHandler.guess_type
guess_type(p) ==
    IF endswith(p, ".js") THEN <<"application/javascript", None>>
    ELSE IF endswith(p, ".css") THEN <<"text/css", None>>
    ELSE IF endswith(p, ".html") \/ p = <<"/">> \/ endswith(p, "/")
         THEN <<"text/html", None>>
    ELSE <<super_guess_type(p), None>>

\* open(path, 'rb') returning a handle of the file
open(s, fp) ==
    LET h == [kind |-> "file", words |-> fp.words]
    IN  [s EXCEPT !.f = <<h>>, !.open_files = @ \cup {h}, !.opened = @ + 1,
                  !.fs_calls = @ \cup {"open"}]

\* f.close()
close(s) == [s EXCEPT !.open_files = @ \ {s.f[1]}]

\* SimpleHTTPRequestHandler.list_directory: os.listdir, an in-memory BytesIO
\* holding the listing, and a 200 response
list_directory(s, fp) ==
    LET listing == [kind |-> "BytesIO", words |-> fp.words]
        s1 == [s EXCEPT !.fs_calls = @ \cup {"listdir"}]
        s2 == send_response(s1, 200, shortmsg(200))
        s3 == send_header(s2, "Content-type", "text/html; charset=utf-8")
        s4 == send_header(s3, "Content-Length", <<"len", listing>>)
        s5 == end_headers(s4)
    IN  IF s5.exc # None THEN s5 ELSE [s5 EXCEPT !.f = <<listing>>]

\* mutant of except_close: the handle is not closed before re-raising
except_close_leak(s) == s

\* send_head, lines 129-131: except: f.close(); raise
except_close(s) == IF s.exc # None THEN close(s) ELSE s

\* mutant of send_file: Content-Length is taken from the wrong stat field
send_file_wrong_stat_field(s, ft) ==
    IF ft = "fstat"
    THEN except_close([s EXCEPT !.exc = "OSError", !.fs_calls = @ \cup {"fstat"}])
    ELSE LET fs == [st_size |-> st_size(s.f[1].words),
                    st_mtime |-> st_mtime(s.f[1].words)]
             gt == guess_type(s.path)
             s1 == [s EXCEPT !.fs_calls = @ \cup {"fstat"}]
             s2 == send_response(s1, 200, shortmsg(200))
             s3 == send_header(s2, "Content-type", gt[1])
             s4 == send_header(s3, "Content-Length", fs.st_mtime)
             s5 == send_header(s4, "Last-Modified", <<"date", fs.st_mtime>>)
         IN  except_close(end_headers(s5))

\* send_head, lines 106-131: the file is open as s.f
send_file(s, ft) ==
    IF ft = "fstat"
    THEN except_close([s EXCEPT !.exc = "OSError", !.fs_calls = @ \cup {"fstat"}])
    ELSE LET fs == [st_size |-> st_size(s.f[1].words),
                    st_mtime |-> st_mtime(s.f[1].words)]
             gt == guess_type(s.path)
             ctype == gt[1]
             encoding == gt[2]
             content_type == IF encoding # None
                             THEN <<ctype, "; charset=", encoding>>
                             ELSE ctype
             s1 == [s EXCEPT !.fs_calls = @ \cup {"fstat"}]
             s2 == send_response(s1, 200, shortmsg(200))
             s3 == send_header(s2, "Content-type", content_type)
             s4 == send_header(s3, "Content-Length", fs.st_size)
             s5 == send_header(s4, "Last-Modified", <<"date", fs.st_mtime>>)
         IN  except_close(end_headers(s5))

\* mutant of open_or_404: only FileNotFoundError is caught, so another
\* OSError of open() propagates
open_or_404_only_missing(s, fp) ==
    IF CanOpen(fp)
    THEN open(s, fp)
    ELSE IF fp.words \notin RegularFiles
         THEN send_error([s EXCEPT !.fs_calls = @ \cup {"open"}], 404, "File not found")
         ELSE [s EXCEPT !.fs_calls = @ \cup {"open"}, !.exc = "OSError"]

\* send_head, lines 100-104: open the file, 404 on OSError
open_or_404(s, fp) ==
    IF CanOpen(fp)
    THEN open(s, fp)
    ELSE send_error([s EXCEPT !.fs_calls = @ \cup {"open"}], 404, "File not found")

\* the handler of "except OSError" around lines 84-101
except_OSError(s) ==
    IF s.exc = "OSError"
    THEN send_error([s EXCEPT !.exc = None], 404, "File not found")
    ELSE s

\* mutant of index_of: the two index names are tried in the other order
index_of_htm_first(fp) ==
    IF exists(join(fp, "index.htm")) THEN <<join(fp, "index.htm")>>
    ELSE IF exists(join(fp, "index.html")) THEN <<join(fp, "index.html")>>
    ELSE <<>>

\* send_head, lines 92-98: the path of the first index file that exists,
\* <<>> when the for loop ends without a break
index_of(fp) ==
    IF exists(join(fp, "index.html")) THEN <<join(fp, "index.html")>>
    ELSE IF exists(join(fp, "index.htm")) THEN <<join(fp, "index.htm")>>
    ELSE <<>>

\* mutant of redirect: the slash is not appended to the Location
redirect_same_path(s) ==
    LET s1 == send_response(s, 301, shortmsg(301))
        s2 == send_header(s1, "Location", s.path)
    IN  end_headers(s2)

\* send_head, lines 87-91: redirect browser
redirect(s) ==
    LET s1 == send_response(s, 301, shortmsg(301))
        s2 == send_header(s1, "Location", Append(s.path, "/"))
    IN  end_headers(s2)

send_head(s, ft) ==
    LET fp == translate_path(s.path)
        s0 == [s EXCEPT !.fs_calls = @ \cup {"translate_path", "isdir"}]
        opening(s1, target) ==
            LET s2 == open_or_404(s1, target)
            IN  IF s2.f = <<>> THEN s2 ELSE send_file(s2, ft)
    IN  IF isdir(fp)
        THEN IF ~endswith(s.path, "/")
             THEN except_OSError(redirect(s0))
             ELSE LET s1 == [s0 EXCEPT !.fs_calls = @ \cup {"exists"}]
                      index == index_of(fp)
                  IN  IF index = <<>>
                      THEN except_OSError(list_directory(s1, fp))
                      ELSE opening(s1, index[1])
        ELSE opening(s0, fp)

(***************************************************************************)
(* The response on the wire                                                *)
(***************************************************************************)
StatusLines == {i \in 1..Len(wfile) : wfile[i][1] = "HTTP"}
Responded == StatusLines # {}
Status == IF Responded THEN wfile[CHOOSE i \in StatusLines : TRUE][2] ELSE 0
HeaderBlocksClosed == Cardinality({i \in 1..Len(wfile) : wfile[i][1] = "CRLF"})
HeaderCount(k) == Cardinality({i \in 1..Len(wfile) : wfile[i][1] = k})
HasHeader(k, v) == \E i \in 1..Len(wfile) : wfile[i][1] = k /\ wfile[i][2] = v
HeaderValues(k) == {wfile[i][2] : i \in {j \in 1..Len(wfile) : wfile[j][1] = k}}
Bodies == {wfile[i][2] : i \in {j \in 1..Len(wfile) : wfile[j][1] = "BODY"}}

(***************************************************************************)
(* Actions                                                                 *)
(***************************************************************************)
Commit(s) ==
    /\ sock' = s.sock
    /\ headers_buffer' = s.headers_buffer
    /\ wfile' = s.wfile
    /\ stderr' = s.stderr
    /\ exc' = s.exc
    /\ f' = s.f
    /\ open_files' = s.open_files
    /\ opened' = s.opened
    /\ fs_calls' = s.fs_calls
    /\ end_headers_calls' = s.end_headers_calls

Fresh ==
    /\ fault' = "none"
    /\ sock' = "ok"
    /\ headers_buffer' = <<>>
    /\ wfile' = <<>>
    /\ stderr' = <<>>
    /\ exc' = None
    /\ f' = <<>>
    /\ opened' = 0
    /\ fs_calls' = {}
    /\ end_headers_calls' = 0

Init ==
    /\ pc = "idle"
    /\ requestline = <<>>
    /\ command = None
    /\ path = <<>>
    /\ fault = "none"
    /\ sock = "ok"
    /\ headers_buffer = <<>>
    /\ wfile = <<>>
    /\ stderr = <<>>
    /\ exc = None
    /\ f = <<>>
    /\ open_files = {}
    /\ opened = 0
    /\ fs_calls = {}
    /\ end_headers_calls = 0
    /\ prev = None

\* BaseHTTPRequestHandler.parse_request: a target that starts with '//' is
\* reduced to a single leading slash
RECURSIVE lstrip(_)
lstrip(p) == IF p # <<>> /\ Head(p) = "/" THEN lstrip(Tail(p)) ELSE p

\* TCPServer accepts a connection and a new handler parses the request line
parse_request(cmd, p) ==
    /\ pc = "idle"
    /\ pc' = "parsed"
    /\ requestline' = <<cmd, p>>
    /\ command' = cmd
    /\ path' = IF Len(p) >= 2 /\ p[2] = "/" THEN <<"/">> \o lstrip(p) ELSE p
    /\ Fresh
    /\ UNCHANGED <<open_files, prev>>

\* BaseHTTPRequestHandler.handle_one_request, up to the dispatch on the command
handle_one_request ==
    /\ pc = "idle"
    /\ \E cmd \in Commands, p \in Paths : parse_request(cmd, p)

\* the client may have gone away before the response is written
Broken(s, ft) == [s EXCEPT !.sock = IF ft = "socket" THEN "broken" ELSE "ok"]

\* handle_one_request dispatches to self.do_OPTIONS()
OPTIONS(ft) ==
    /\ pc = "parsed"
    /\ command = "OPTIONS"
    /\ fault' = ft
    /\ \E s \in {do_OPTIONS(Broken(Self, ft))} : Commit(s)
    /\ pc' = "done"
    /\ UNCHANGED <<requestline, command, path, prev>>

\* SimpleHTTPRequestHandler.do_GET: f = self.send_head()
do_GET(ft) ==
    /\ pc = "parsed"
    /\ command = "GET"
    /\ fault' = ft
    /\ \E s \in {send_head(Broken(Self, ft), ft)} :
           /\ Commit(s)
           /\ pc' = IF s.exc = None /\ s.f # <<>> THEN "streaming" ELSE "done"
    /\ UNCHANGED <<requestline, command, path, prev>>

\* do_GET: try: self.copyfile(f, self.wfile) finally: f.close()
copyfile(ok) ==
    /\ pc = "streaming"
    /\ IF ok
       THEN /\ wfile' = Append(wfile, <<"BODY", f[1]>>)
            /\ UNCHANGED <<exc, sock>>
       ELSE /\ exc' = "OSError"
            /\ sock' = "broken"
            /\ UNCHANGED wfile
    /\ open_files' = open_files \ {f[1]}
    /\ pc' = "done"
    /\ UNCHANGED <<requestline, command, path, fault, headers_buffer, stderr, f, opened,
                   fs_calls, end_headers_calls, prev>>

\* the request is finished (an exception is reported by handle_error) and
\* serve_forever goes on to the next connection
serve_forever ==
    /\ pc = "done"
    /\ pc' = "idle"
    /\ prev' = IF exc # None THEN exc ELSE str(Status)
    /\ requestline' = <<>>
    /\ command' = None
    /\ path' = <<>>
    /\ Fresh
    /\ UNCHANGED open_files

Next ==
    \/ handle_one_request
    \/ \E ft \in {"none", "socket"} : OPTIONS(ft)
    \/ \E ft \in {"none", "fstat", "socket"} : do_GET(ft)
    \/ \E ok \in BOOLEAN : copyfile(ok)
    \/ serve_forever

Spec == Init /\ [][Next]_vars

(***************************************************************************)
(* Properties                                                              *)
(***************************************************************************)
\* the handler has run for the current request
Handled == pc \in {"streaming", "done"}

FinalizationHeaders == {
    <<"Access-Control-Allow-Origin", "*">>,
    <<"Access-Control-Allow-Methods", "GET, POST, PUT, DELETE, OPTIONS">>,
    <<"Access-Control-Allow-Headers", "Content-Type, Authorization">>,
    <<"X-Content-Type-Options", "nosniff">>,
    <<"X-Frame-Options", "DENY">>,
    <<"X-XSS-Protection", "1; mode=block">> }

SecurityHeaders == {"X-Content-Type-Options", "X-Frame-Options", "X-XSS-Protection"}

Extensions == {".js", ".css", ".html", ".txt"}

NoExtension(p) == \A i \in 1..Len(basename(p)) : basename(p)[i] \notin Extensions

FileResponse == Handled /\ Status = 200 /\ f # <<>> /\ f[1].kind = "file"

\* C1: every response on the wire (200 file, 200 listing, 301, 404, OPTIONS)
\* carries the six finalization headers, each with its fixed value only; and
\* every request handled without an environment fault gets a response.
C1_SixHeadersOnEveryResponse ==
    /\ Responded =>
          \A h \in FinalizationHeaders :
              /\ HasHeader(h[1], h[2])
              /\ \A v \in HeaderValues(h[1]) : v = h[2]
    /\ (Handled /\ fault = "none") => Responded

C1_Witness ==
    /\ pc = "done"
    /\ Status = 404
    /\ \A h \in FinalizationHeaders : HasHeader(h[1], h[2])

\* C2: a GET whose path resolves to a directory and does not end with "/" is
\* answered 301 with Location = path + "/", no body, no handle and no open(),
\* whatever index files the directory holds.
C2_DirectoryWithoutSlashRedirects ==
    (/\ Handled
     /\ command = "GET"
     /\ fault # "socket"
     /\ isdir(translate_path(path))
     /\ ~endswith(path, "/"))
    => /\ pc = "done"
       /\ Status = 301
       /\ HeaderCount("Location") = 1
       /\ HeaderValues("Location") = {path \o <<"/">>}
       /\ Bodies = {}
       /\ f = <<>>
       /\ opened = 0
       /\ "open" \notin fs_calls

C2_Witness ==
    /\ pc = "done"
    /\ Status = 301
    /\ exists(join(translate_path(path), "index.html"))
    /\ HeaderValues("Location") = {path \o <<"/">>}

\* C3: a GET whose path ends with "/" and resolves to a directory is served
\* index.html if it exists, else index.htm if it exists, else the directory
\* listing with status 200 and no error.
C3_IndexThenListing ==
    LET fp == translate_path(path)
    IN  (/\ pc = "done"
         /\ command = "GET"
         /\ fault = "none"
         /\ sock = "ok"
         /\ isdir(fp)
         /\ endswith(path, "/"))
        => /\ Status = 200
           /\ stderr = <<>>
           /\ exc = None
           /\ Cardinality(Bodies) = 1
           /\ \A b \in Bodies :
                 IF exists(join(fp, "index.html"))
                 THEN b.kind = "file" /\ b.words = join(fp, "index.html").words
                 ELSE IF exists(join(fp, "index.htm"))
                 THEN b.kind = "file" /\ b.words = join(fp, "index.htm").words
                 ELSE b.kind = "BytesIO" /\ b.words = fp.words

C3_Witness ==
    LET fp == translate_path(path)
    IN  /\ pc = "done"
        /\ endswith(path, "/")
        /\ exists(join(fp, "index.html"))
        /\ exists(join(fp, "index.htm"))
        /\ \E b \in Bodies : b.kind = "file" /\ b.words = join(fp, "index.html").words

\* C4: a GET for a path that is no directory and cannot be opened (missing,
\* unreadable, a file named with a trailing slash) is answered 404 with the
\* "File not found" error page and no handle; the server then returns to its
\* idle state and serves the next request normally.
C4_NotFoundIsConfined ==
    LET fp == translate_path(path)
    IN  /\ (/\ Handled
            /\ command = "GET"
            /\ fault # "socket"
            /\ ~isdir(fp)
            /\ ~CanOpen(fp))
           => /\ pc = "done"
              /\ Status = 404
              /\ exc = None
              /\ Cardinality(Bodies) = 1
              /\ \A b \in Bodies :
                    b.kind = "error page" /\ b.code = 404 /\ b.message = "File not found"
              /\ f = <<>>
              /\ open_files = {}
        /\ (pc = "idle" /\ prev = "404")
           => /\ open_files = {}
              /\ exc = None
              /\ sock = "ok"
              /\ headers_buffer = <<>>
              /\ wfile = <<>>
        /\ (/\ prev = "404"
            /\ Handled
            /\ command = "GET"
            /\ fault = "none"
            /\ ~isdir(fp)
            /\ CanOpen(fp))
           => Status = 200 /\ f # <<>>

C4_Witness ==
    /\ prev = "404"
    /\ pc = "done"
    /\ exc = None
    /\ Status = 200
    /\ \E b \in Bodies : b.kind = "file"

\* C5: a GET that resolves to a regular file that can be opened (directly, or
\* as the index file of a directory) is answered 200 with Content-Length equal
\* to the file's size, one Content-type and the file's Last-Modified date.
C5_ContentLengthIsFileSize ==
    LET fp == translate_path(path)
        target == IF isdir(fp) THEN index_of(fp) ELSE <<fp>>
    IN  (/\ Handled
         /\ command = "GET"
         /\ fault = "none"
         /\ isdir(fp) => endswith(path, "/")
         /\ target # <<>>
         /\ CanOpen(target[1]))
        => /\ Status = 200
           /\ HeaderCount("Content-Length") = 1
           /\ HeaderValues("Content-Length") = {st_size(target[1].words)}
           /\ HeaderCount("Content-type") = 1
           /\ HeaderCount("Last-Modified") = 1
           /\ HeaderValues("Last-Modified") = {<<"date", st_mtime(target[1].words)>>}

C5_Witness ==
    /\ pc = "done"
    /\ exc = None
    /\ FileResponse
    /\ ~isdir(translate_path(path))
    /\ HeaderValues("Content-Length") = {st_size(f[1].words)}
    /\ st_size(f[1].words) > 0

\* C6 as stated: the Content-type of a 200 file response is
\* application/javascript for a path ending .js, text/css for .css, and
\* text/html for a path ending "/" or having no extension; never empty.
C6_Original ==
    FileResponse =>
        /\ HeaderCount("Content-type") = 1
        /\ \A v \in HeaderValues("Content-type") :
              /\ v # ""
              /\ endswith(path, ".js") => v = "application/javascript"
              /\ endswith(path, ".css") => v = "text/css"
              /\ (endswith(path, "/") \/ NoExtension(path)) => v = "text/html"

\* C6 amended: the Content-type of a 200 file response depends on the raw
\* request path only: application/javascript for .js, text/css for .css,
\* text/html for .html or a trailing "/", otherwise the generic lookup's
\* answer, which is application/octet-stream for a path with no extension;
\* never empty.
C6_ContentTypeFromRequestPath ==
    FileResponse =>
        /\ HeaderCount("Content-type") = 1
        /\ \A v \in HeaderValues("Content-type") :
              /\ v # ""
              /\ v # None
              /\ endswith(path, ".js") => v = "application/javascript"
              /\ endswith(path, ".css") => v = "text/css"
              /\ (endswith(path, "/") \/ endswith(path, ".html")) => v = "text/html"
              /\ (NoExtension(path) /\ ~endswith(path, "/"))
                    => v = "application/octet-stream"
              /\ v \in {"application/javascript", "text/css", "text/html",
                        "text/plain", "application/octet-stream"}

C6_Witness ==
    /\ FileResponse
    /\ NoExtension(path)
    /\ ~endswith(path, "/")
    /\ HeaderValues("Content-type") = {"application/octet-stream"}

\* C7 as stated: no log entry for a request answered 200, exactly one for a
\* request answered with another status.
C7_Original ==
    (Handled /\ Responded) =>
        /\ Status = 200 => Len(stderr) = 0
        /\ Status # 200 => Len(stderr) = 1

\* C7 amended: no log entry for a request answered 200, exactly one (the
\* request line) for a request answered 301, and exactly two for a request
\* answered 404: the error line "code 404, message File not found" and the
\* request line.
C7_LogEntriesPerStatus ==
    (Handled /\ Responded) =>
        /\ Status \in {200, 301, 404}
        /\ Status = 200 => stderr = <<>>
        /\ Status = 301 =>
              /\ Len(stderr) = 1
              /\ stderr[1] = <<requestline, "301", "-">>
        /\ Status = 404 =>
              /\ Len(stderr) = 2
              /\ stderr[1] = << <<"code", 404>>, "File not found" >>
              /\ stderr[2] = <<requestline, "404", "-">>

C7_Witness ==
    /\ pc = "done"
    /\ Status = 404
    /\ Len(stderr) = 2

\* C8: OPTIONS is answered 200 with no body and the four preflight headers,
\* and touches the filesystem for no request path.
C8_OptionsPreflight ==
    (pc = "done" /\ command = "OPTIONS" /\ fault = "none") =>
        /\ Status = 200
        /\ Bodies = {}
        /\ HasHeader("Access-Control-Allow-Origin", "*")
        /\ HasHeader("Access-Control-Allow-Methods", "GET, POST, PUT, DELETE, OPTIONS")
        /\ HasHeader("Access-Control-Allow-Headers", "Content-Type, Authorization")
        /\ HasHeader("Access-Control-Max-Age", "3600")
        /\ HeaderCount("Access-Control-Max-Age") = 1
        /\ fs_calls = {}
        /\ opened = 0
        /\ open_files = {}
        /\ f = <<>>

C8_Witness ==
    /\ pc = "done"
    /\ command = "OPTIONS"
    /\ Status = 200
    /\ ~exists(translate_path(path))
    /\ fs_calls = {}

\* C9: for every response on the wire end_headers ran exactly once: one call,
\* one closed header block, each security header once, each CORS header once
\* from end_headers (and once more from do_OPTIONS itself), nothing left in
\* the buffer; and a request handled without a fault does get its response.
C9_EndHeadersOncePerResponse ==
    /\ (Handled /\ Responded) =>
          /\ end_headers_calls = 1
          /\ HeaderBlocksClosed = 1
          /\ headers_buffer = <<>>
          /\ \A h \in FinalizationHeaders :
                HeaderCount(h[1]) =
                    IF command = "OPTIONS" /\ h[1] \notin SecurityHeaders THEN 2 ELSE 1
    /\ (Handled /\ fault = "none") => Responded

C9_Witness ==
    /\ pc = "done"
    /\ exc = None
    /\ f # <<>>
    /\ f[1].kind = "BytesIO"
    /\ end_headers_calls = 1
    /\ HeaderBlocksClosed = 1

\* C10: a request opens at most one file; the handle is open only while the
\* caller streams it; a failure after the open (fstat, header emission) closes
\* it and propagates; the 301, 404 and listing paths hold no handle; no handle
\* is open once the request has completed or failed.
C10_HandleScopedToRequest ==
    /\ opened <= 1
    /\ pc \in {"idle", "parsed", "done"} => open_files = {}
    /\ pc = "streaming" =>
          /\ f # <<>>
          /\ exc = None
          /\ open_files = IF f[1].kind = "file" THEN {f[1]} ELSE {}
    /\ (pc = "done" /\ opened = 1 /\ fault # "none") =>
          exc = "OSError" /\ ~Responded
    /\ (Handled /\ Status \in {301, 404}) => f = <<>> /\ opened = 0
    /\ (f # <<>> /\ f[1].kind = "BytesIO") => opened = 0

C10_Witness ==
    /\ pc = "done"
    /\ opened = 1
    /\ fault = "socket"
    /\ exc = "OSError"
    /\ open_files = {}

====
